---- MODULE Spec2Model ----
(***************************************************************************)
(* Model of OccurrenceFeatureExtractor                                     *)
(* (src/temporal_event_predictor/core/ml/occurrence_features.py).          *)
(*                                                                         *)
(* Representation choices                                                  *)
(*  - A Python str is a sequence of one-character strings, so that         *)
(*    startswith and split('_') are computed character by character.       *)
(*  - A timestamp is an integer number of ticks since Monday 00:00, with   *)
(*    TicksPerDay ticks in a calendar day; Timedelta.days is the floored   *)
(*    quotient by TicksPerDay.                                             *)
(*  - A float is a fixed-point integer with Scale units for 1.0.           *)
(*  - A history (the DATE column of the DataFrame) is a sequence of        *)
(*    timestamps, in the order the caller supplies them.                   *)
(***************************************************************************)
EXTENDS Integers, Sequences, FiniteSets, TLC

\* ---------------------------------------------------------------- bounds
TicksPerDay == 2
Scale == 1000
MaxCalls == 3
MaxLenCache == 1
MaxLen == 3
MaxStamp == 15
MaxLenDecision == 2
MaxTargetDay == 6
MaxGapLen == 4
MaxGap == 8
MaxMinCount == 3

\* ------------------------------------------------------- program constants
DefaultMinCount == 2
DefaultMinRate == (15 * Scale) \div 100
DaysPerWeek == 7

\* --------------------------------------------------------------- strings
DigitChar(d) == <<"0", "1", "2", "3", "4", "5", "6", "7", "8", "9">>[d + 1]

RECURSIVE IntToStr(_)
\* str(n) for n >= 0
IntToStr(n) == IF n < 10 THEN <<DigitChar(n)>>
               ELSE IntToStr(n \div 10) \o <<DigitChar(n % 10)>>

\* k.startswith(p)
StartsWith(k, p) == /\ Len(p) <= Len(k)
                    /\ SubSeq(k, 1, Len(p)) = p

\* k.split('_')[0]: the characters before the first '_' (all of k if none)
FirstSegment(k) ==
    LET seps == {i \in 1..Len(k) : k[i] = "_"}
    IN  IF seps = {} THEN k
        ELSE SubSeq(k, 1, (CHOOSE i \in seps : \A j \in seps : i <= j) - 1)

\* ------------------------------------------------------------ arithmetic
RECURSIVE SumSeq(_)
SumSeq(s) == IF s = <<>> THEN 0 ELSE Head(s) + SumSeq(Tail(s))

RECURSIVE SqrtBetween(_, _, _)
\* largest r in lo..hi with r*r <= x
SqrtBetween(lo, hi, x) ==
    IF lo >= hi THEN lo
    ELSE LET mid == (lo + hi + 1) \div 2
         IN  IF mid * mid <= x THEN SqrtBetween(mid, hi, x)
             ELSE SqrtBetween(lo, mid - 1, x)

\* the search stays below 46341, whose square exceeds 32-bit integers
ISqrt(x) == SqrtBetween(0, IF x < 46340 THEN x ELSE 46340, x)

\* np.mean(gaps), in Scale units
Mean(gaps) == (SumSeq(gaps) * Scale) \div Len(gaps)

\* np.std(gaps): population standard deviation, in Scale units
Std(gaps) ==
    LET n  == Len(gaps)
        s  == SumSeq(gaps)
        sq == SumSeq([i \in 1..n |-> gaps[i] * gaps[i]])
    IN  ISqrt(((n * sq - s * s) * Scale * Scale) \div (n * n))

\* ------------------------------------------------------------ timestamps
\* Timedelta.days
Days(delta) == delta \div TicksPerDay

\* datetime.weekday() / Series.dt.dayofweek, 0 = Monday
Weekday(t) == (t \div TicksPerDay) % DaysPerWeek

RECURSIVE Insert(_, _)
Insert(x, s) == IF s = <<>> THEN <<x>>
                ELSE IF x < Head(s) THEN <<x>> \o s
                ELSE <<Head(s)>> \o Insert(x, Tail(s))

RECURSIVE SortValues(_)
\* history.sort_values(DFCols.DATE)
SortValues(h) == IF h = <<>> THEN <<>>
                 ELSE Insert(h[Len(h)], SortValues(SubSeq(h, 1, Len(h) - 1)))

MinDate(h) == CHOOSE x \in {h[i] : i \in 1..Len(h)} :
                  \A j \in 1..Len(h) : x <= h[j]
MaxDate(h) == CHOOSE x \in {h[i] : i \in 1..Len(h)} :
                  \A j \in 1..Len(h) : x >= h[j]

\* ------------------------------------------- OccurrenceFeatureExtractor
\* the value of (max - min).days: an int, or NaN when max and min are NaT
IntDays(n) == [nan |-> FALSE, days |-> n]
NaN == [nan |-> TRUE, days |-> 0]

RECURSIVE count_weekdays_in_range(_, _, _)
\* the while loop of _count_weekdays_in_range, from current = start_date
count_weekdays_in_range(start_date, end_date, target_weekday) ==
    IF start_date <= end_date
    THEN (IF Weekday(start_date) = target_weekday THEN 1 ELSE 0)
         + count_weekdays_in_range(start_date + TicksPerDay, end_date,
                                   target_weekday)
    ELSE 0

\* history[DATE].dt.dayofweek.value_counts().to_dict().get(weekday, 0)
WeekdayCount(history, weekday) ==
    Cardinality({i \in 1..Len(history) : Weekday(history[i]) = weekday})

\* occurrence_count / total_opportunities if total_opportunities > 0 else 0.0
OccurrenceRate(occurrence_count, total_opportunities) ==
    IF total_opportunities > 0
    THEN (occurrence_count * Scale) \div total_opportunities
    ELSE 0

compute_weekday_stats(history) ==
    IF history = <<>> THEN [w \in {} |-> 0]
    ELSE LET min_date == MinDate(history)
             max_date == MaxDate(history)
         IN  [weekday \in 0..(DaysPerWeek - 1) |->
                LET occurrence_count == WeekdayCount(history, weekday)
                    total_opportunities ==
                        count_weekdays_in_range(min_date, max_date, weekday)
                IN  [occurrence_count |-> occurrence_count,
                     occurrence_rate |->
                        OccurrenceRate(occurrence_count, total_opportunities),
                     total_opportunities |-> total_opportunities]]

RECURSIVE GapsFrom(_, _)
\* the for loop of _compute_gaps_between_events, from index i (1-based i+1)
GapsFrom(dates, i) ==
    IF i > Len(dates) THEN <<>>
    ELSE LET gap == Days(dates[i] - dates[i - 1])
         IN  (IF gap > 0 THEN <<gap>> ELSE <<>>) \o GapsFrom(dates, i + 1)

compute_gaps_between_events(history) ==
    IF Len(history) < 2 THEN <<>> ELSE GapsFrom(history, 2)

\* variant: the score is given from two gaps on
compute_periodicity_score_FromTwo(gaps) ==
    IF Len(gaps) < 2 THEN 0
    ELSE LET mean_gap == Mean(gaps)
             std_gap == Std(gaps)
         IN  IF mean_gap = 0 THEN 0
             ELSE LET cv == (std_gap * Scale) \div mean_gap
                  IN  (Scale * Scale) \div (Scale + cv)

compute_periodicity_score(gaps) ==
    IF Len(gaps) < 3 THEN 0
    ELSE LET mean_gap == Mean(gaps)
             std_gap == Std(gaps)
         IN  IF mean_gap = 0 THEN 0
             ELSE LET cv == (std_gap * Scale) \div mean_gap
                  IN  (Scale * Scale) \div (Scale + cv)

\* (history_sorted[DATE].max() - history_sorted[DATE].min()).days
HistorySpanDays(history_sorted) ==
    IF history_sorted = <<>> THEN NaN
    ELSE IntDays(Days(MaxDate(history_sorted) - MinDate(history_sorted)))

\* the cache-miss path of compute_entity_stats
ComputeStats(history) ==
    LET history_sorted == SortValues(history)
        gaps == compute_gaps_between_events(history_sorted)
    IN  [weekday_stats |-> compute_weekday_stats(history_sorted),
         stddev_gap_between_events |->
            IF Len(gaps) > 1 THEN Std(gaps) ELSE 0,
         periodicity_score |-> compute_periodicity_score(gaps),
         total_events |-> Len(history),
         history_span_days |-> HistorySpanDays(history_sorted)]

\* variant: the key leaves the history length out
CacheKey_NoLength(entity_id, n) == entity_id \o <<"_">>

\* cache_key = f"{entity_id}_{len(history)}"
CacheKey(entity_id, n) == entity_id \o <<"_">> \o IntToStr(n)

\* variant: the cache is never consulted
CacheHit_Never(c, cache_key) == FALSE

\* cache_key in self._cache
CacheHit(c, cache_key) == cache_key \in DOMAIN c

\* the value compute_entity_stats returns on cache c
StatsOf(c, entity_id, history) ==
    LET cache_key == CacheKey(entity_id, Len(history))
    IN  IF CacheHit(c, cache_key) THEN c[cache_key]
        ELSE ComputeStats(history)

\* self._cache after compute_entity_stats
CacheAfterCompute(c, entity_id, history) ==
    LET cache_key == CacheKey(entity_id, Len(history))
    IN  IF CacheHit(c, cache_key) THEN c
        ELSE [k \in DOMAIN c \cup {cache_key} |->
                IF k = cache_key THEN ComputeStats(history) ELSE c[k]]

\* get_week_of_month(target_date); day 0 is the first day of a month
get_week_of_month(target_date) == (Days(target_date) \div 7) + 1

\* the dict extract_features returns, given the stats
Features(stats, target_date) ==
    LET weekday == Weekday(target_date)
        weekday_info ==
            IF weekday \in DOMAIN stats.weekday_stats
            THEN stats.weekday_stats[weekday]
            ELSE [occurrence_count |-> 0, occurrence_rate |-> 0,
                  total_opportunities |-> 0]
    IN  [weekday_occurrence_rate |-> weekday_info.occurrence_rate,
         weekday_occurrence_count |-> weekday_info.occurrence_count,
         stddev_gap_between_events |-> stats.stddev_gap_between_events,
         periodicity_score |-> stats.periodicity_score,
         week_of_month |-> get_week_of_month(target_date)]

\* variant: the rate rule is applied before the sample-size rule
Decide_RateFirst(features, min_occurrence_count, min_occurrence_rate) ==
    LET occurrence_count == features.weekday_occurrence_count
        occurrence_rate == features.weekday_occurrence_rate
    IN  IF occurrence_rate < min_occurrence_rate
        THEN [should_predict |-> FALSE, confidence |-> occurrence_rate,
              reason |-> "rate_too_low"]
        ELSE IF occurrence_count < min_occurrence_count
        THEN [should_predict |-> FALSE, confidence |-> 0,
              reason |-> "insufficient_sample"]
        ELSE [should_predict |-> TRUE, confidence |-> occurrence_rate,
              reason |-> "authorized"]

\* the rule cascade of should_predict_event, given the features
Decide(features, min_occurrence_count, min_occurrence_rate) ==
    LET occurrence_count == features.weekday_occurrence_count
        occurrence_rate == features.weekday_occurrence_rate
    IN  IF occurrence_count < min_occurrence_count
        THEN [should_predict |-> FALSE, confidence |-> 0,
              reason |-> "insufficient_sample"]
        ELSE IF occurrence_rate < min_occurrence_rate
        THEN [should_predict |-> FALSE, confidence |-> occurrence_rate,
              reason |-> "rate_too_low"]
        ELSE [should_predict |-> TRUE, confidence |-> occurrence_rate,
              reason |-> "authorized"]

\* the keys clear_cache(entity_id) deletes
KeysToRemove(c, entity_id) == {k \in DOMAIN c : StartsWith(k, entity_id)}

\* self._cache after clear_cache(entity_id); an empty or None id clears all
CacheAfterClear(c, entity_id) ==
    IF entity_id # <<>>
    THEN [k \in DOMAIN c \ KeysToRemove(c, entity_id) |-> c[k]]
    ELSE [k \in {} |-> 0]

\* the dict get_cache_stats returns
CacheStats(c) ==
    [cache_size |-> Cardinality(DOMAIN c),
     cached_entities |-> Cardinality({FirstSegment(k) : k \in DOMAIN c})]

\* ----------------------------------------------------------------- state
VARIABLES
    cache,      \* self._cache: cache key |-> stats
    origin,     \* history variable: cache key |-> the first call that stored it
    requested,  \* history variable: the (entity_id, len(history)) pairs asked
    cleared,    \* history variable: clear_cache has been called
    op,         \* the method called last
    args,       \* its arguments
    ret,        \* its return value
    served,     \* "hit" or "miss": the branch compute_entity_stats took
    calls       \* number of calls made

vars == <<cache, origin, requested, cleared, op, args, ret, served, calls>>

\* ---------------------------------------------------------------- inputs
Entities == {<<"A">>, <<"A", "1">>, <<"A", "B">>,
             <<"e", "n", "t", "_", "1">>, <<"e", "n", "t", "_", "2">>}

SeqsUpTo(S, n) == UNION {[1..m -> S] : m \in 0..n}

\* histories of daily events from a Monday or a Tuesday, used where the
\* cache is exercised
CacheHistories ==
    {[i \in 1..n |-> (d + i - 1) * TicksPerDay] :
        n \in 0..MaxLenCache, d \in {0, 1}}

\* the entities of the specification with all four kinds of call
CallEntities == {<<"A">>, <<"e", "n", "t", "_", "1">>}

CacheTargets == {0}

\* histories in any order, with repeated days and times of day
Histories == SeqsUpTo(0..MaxStamp, MaxLen)

\* Monday 00:00 and later that day, Tuesday, both days a week later, and
\* the Monday after
DecisionStamps == {0, 1, TicksPerDay, DaysPerWeek * TicksPerDay,
                   (DaysPerWeek + 1) * TicksPerDay,
                   2 * DaysPerWeek * TicksPerDay}

DecisionHistories == SeqsUpTo(DecisionStamps, MaxLenDecision)

Targets == {d * TicksPerDay : d \in 0..MaxTargetDay}

MinRates == {0, DefaultMinRate, Scale \div 2, Scale}

GapLists == SeqsUpTo(1..MaxGap, MaxGapLen)

NoArgs == [entity_id |-> <<>>, history |-> <<>>, target_date |-> 0,
           min_occurrence_count |-> 0, min_occurrence_rate |-> 0]

\* __init__: an empty cache
Init ==
    /\ cache = [k \in {} |-> 0]
    /\ origin = [k \in {} |-> 0]
    /\ requested = {}
    /\ cleared = FALSE
    /\ op = "init"
    /\ args = NoArgs
    /\ ret = "None"
    /\ served = "none"
    /\ calls = 0

\* --------------------------------------------------------------- actions
\* the effect of a call of compute_entity_stats on the state
Lookup(entity_id, history) ==
    LET cache_key == CacheKey(entity_id, Len(history))
        hit == CacheHit(cache, cache_key)
    IN  /\ cache' = CacheAfterCompute(cache, entity_id, history)
        /\ served' = IF hit THEN "hit" ELSE "miss"
        /\ origin' = IF cache_key \in DOMAIN origin THEN origin
                     ELSE [k \in DOMAIN origin \cup {cache_key} |->
                            IF k = cache_key
                            THEN [entity_id |-> entity_id, history |-> history]
                            ELSE origin[k]]
        /\ requested' = requested \cup {<<entity_id, Len(history)>>}
        /\ calls' = calls + 1
        /\ UNCHANGED cleared

compute_entity_stats(entity_id, history) ==
    /\ Lookup(entity_id, history)
    /\ op' = "compute_entity_stats"
    /\ args' = [NoArgs EXCEPT !.entity_id = entity_id, !.history = history]
    /\ ret' = StatsOf(cache, entity_id, history)

extract_features(entity_id, target_date, history) ==
    /\ Lookup(entity_id, history)
    /\ op' = "extract_features"
    /\ args' = [NoArgs EXCEPT !.entity_id = entity_id, !.history = history,
                              !.target_date = target_date]
    /\ ret' = Features(StatsOf(cache, entity_id, history), target_date)

should_predict_event(entity_id, target_date, history, min_occurrence_count, min_occurrence_rate) ==
    /\ Lookup(entity_id, history)
    /\ op' = "should_predict_event"
    /\ args' = [entity_id |-> entity_id, history |-> history,
                target_date |-> target_date,
                min_occurrence_count |-> min_occurrence_count,
                min_occurrence_rate |-> min_occurrence_rate]
    /\ ret' = Decide(Features(StatsOf(cache, entity_id, history), target_date),
                     min_occurrence_count, min_occurrence_rate)

\* entity_id = <<>> stands for clear_cache() and clear_cache(None)
clear_cache(entity_id) ==
    /\ cache' = CacheAfterClear(cache, entity_id)
    /\ origin' = [k \in DOMAIN cache' |-> origin[k]]
    /\ cleared' = TRUE
    /\ op' = "clear_cache"
    /\ args' = [NoArgs EXCEPT !.entity_id = entity_id]
    /\ ret' = "None"
    /\ served' = "none"
    /\ calls' = calls + 1
    /\ UNCHANGED requested

get_cache_stats ==
    /\ op' = "get_cache_stats"
    /\ args' = NoArgs
    /\ ret' = CacheStats(cache)
    /\ served' = "none"
    /\ calls' = calls + 1
    /\ UNCHANGED <<cache, origin, requested, cleared>>

\* _compute_gaps_between_events on the sorted history, as line 57 calls it
gaps_between_events(history) ==
    /\ op' = "_compute_gaps_between_events"
    /\ args' = [NoArgs EXCEPT !.history = history]
    /\ ret' = compute_gaps_between_events(SortValues(history))
    /\ served' = "none"
    /\ calls' = calls + 1
    /\ UNCHANGED <<cache, origin, requested, cleared>>

\* _compute_periodicity_score on a gap list; args.history holds the gaps
periodicity_score(gaps) ==
    /\ op' = "_compute_periodicity_score"
    /\ args' = [NoArgs EXCEPT !.history = gaps]
    /\ ret' = compute_periodicity_score(gaps)
    /\ served' = "none"
    /\ calls' = calls + 1
    /\ UNCHANGED <<cache, origin, requested, cleared>>

\* ------------------------------------------------------- specifications
\* any sequence of cache operations on one extractor
Next ==
    \/ /\ calls < MaxCalls
       /\ \E e \in Entities, h \in CacheHistories : compute_entity_stats(e, h)
    \/ /\ calls < MaxCalls
       /\ \E e \in Entities \cup {<<>>} : clear_cache(e)
    \/ /\ calls < MaxCalls
       /\ get_cache_stats

Spec == Init /\ [][Next]_vars

\* any sequence of calls that never clears the cache
NextCalls ==
    \/ /\ calls < MaxCalls
       /\ \E e \in CallEntities, h \in CacheHistories :
            compute_entity_stats(e, h)
    \/ /\ calls < MaxCalls
       /\ \E e \in CallEntities, h \in CacheHistories, t \in CacheTargets :
            extract_features(e, t, h)
    \/ /\ calls < MaxCalls
       /\ \E e \in CallEntities, h \in CacheHistories, t \in CacheTargets :
            should_predict_event(e, t, h, DefaultMinCount, DefaultMinRate)
    \/ /\ calls < MaxCalls
       /\ get_cache_stats

SpecCalls == Init /\ [][NextCalls]_vars

\* one compute_entity_stats on a fresh extractor, over all histories
NextStats ==
    /\ calls = 0
    /\ \E h \in Histories : compute_entity_stats(<<"A">>, h)

SpecStats == Init /\ [][NextStats]_vars

\* one should_predict_event on a fresh extractor, over all thresholds
NextDecision ==
    /\ calls = 0
    /\ \E h \in DecisionHistories, t \in Targets,
          c \in 0..MaxMinCount, r \in MinRates :
            should_predict_event(<<"A">>, t, h, c, r)

SpecDecision == Init /\ [][NextDecision]_vars

NextGaps ==
    /\ calls = 0
    /\ \E h \in Histories : gaps_between_events(h)

SpecGaps == Init /\ [][NextGaps]_vars

NextPeriodicity ==
    /\ calls = 0
    /\ \E g \in GapLists : periodicity_score(g)

SpecPeriodicity == Init /\ [][NextPeriodicity]_vars

\* ------------------------------------------------------------ properties
\* the calendar date of a timestamp, as a day number
DateOf(t) == t \div TicksPerDay

\* the key of the call recorded in args
ArgsKey == CacheKey(args.entity_id, Len(args.history))

IsLookup == op \in {"compute_entity_stats", "extract_features",
                    "should_predict_event"}

\* C1: clear_cache(entity_id) removes exactly the entries created for that
\* entity id and leaves the entries of every other entity, also of those
\* whose id starts with the given id, as they were.
C1_ClearRemovesExactlyEntity ==
    [][(op' = "clear_cache" /\ calls' = calls + 1
            /\ args'.entity_id # <<>>)
        => /\ DOMAIN cache' =
                {k \in DOMAIN cache : origin[k].entity_id # args'.entity_id}
           /\ \A k \in DOMAIN cache' : cache'[k] = cache[k]]_vars

\* C2: two compute_entity_stats calls in a row with the same entity_id and
\* history return the same stats, the second is served from the cache, and
\* cache_size is the same after the second call as after the first.
C2_Idempotent ==
    [][(/\ op = "compute_entity_stats"
        /\ op' = "compute_entity_stats"
        /\ calls' = calls + 1
        /\ args' = args)
        => /\ ret' = ret
           /\ served' = "hit"
           /\ CacheStats(cache').cache_size = CacheStats(cache).cache_size]_vars

\* a second call with the arguments of the first has been served
C2_Witness ==
    /\ op = "compute_entity_stats"
    /\ calls = 2
    /\ served = "hit"
    /\ ArgsKey \in DOMAIN origin
    /\ origin[ArgsKey] =
          [entity_id |-> args.entity_id, history |-> args.history]
    /\ args.history # <<>>

\* C3: with no clear_cache call, cache_size equals the number of distinct
\* (entity_id, history length) pairs requested so far.
C3_SizeIsDistinctRequests ==
    ~cleared => CacheStats(cache).cache_size = Cardinality(requested)

\* three calls, one pair asked twice, two entities that differ after a '_'
C3_Witness ==
    /\ ~cleared
    /\ calls = 3
    /\ Cardinality(requested) = 2
    /\ CacheStats(cache).cache_size = 2
    /\ \E p, q \in requested : p[1] # q[1] /\ "_" \in {p[1][i] : i \in 1..Len(p[1])}

\* C4: cached_entities returned by get_cache_stats is the number of distinct
\* entity ids that have an entry in the cache.
C4_CachedEntitiesCountsIds ==
    op = "get_cache_stats"
        => ret.cached_entities =
              Cardinality({origin[k].entity_id : k \in DOMAIN cache})

\* C5: for a non-empty history and every weekday, occurrence_count is at most
\* total_opportunities, occurrence_rate is their ratio (0.0 without
\* opportunities) and lies in [0,1], and total_opportunities is the number of
\* calendar dates of that weekday from min_date to max_date inclusive.
C5_WeekdayStats ==
    (op = "compute_entity_stats" /\ args.history # <<>>)
        => \A w \in 0..(DaysPerWeek - 1) :
              LET st == ret.weekday_stats[w]
                  first == DateOf(MinDate(args.history))
                  last == DateOf(MaxDate(args.history))
              IN  /\ st.occurrence_count <= st.total_opportunities
                  /\ st.occurrence_rate =
                        IF st.total_opportunities = 0 THEN 0
                        ELSE (st.occurrence_count * Scale)
                                \div st.total_opportunities
                  /\ st.occurrence_rate >= 0
                  /\ st.occurrence_rate <= Scale
                  /\ st.total_opportunities =
                        Cardinality({d \in first..last : d % DaysPerWeek = w})

\* C6: should_predict_event returns (False, 0.0, insufficient sample) when the
\* weekday's count is below min_occurrence_count, else (False, rate, rate too
\* low) when the rate is below min_occurrence_rate, else (True, rate,
\* authorized); so it predicts exactly when both thresholds are met and the
\* confidence is 0.0 or the rate.
C6_RuleCascade ==
    op = "should_predict_event"
        => LET day == args.target_date \div TicksPerDay
               h == args.history
               count == Cardinality({i \in 1..Len(h) :
                            DateOf(h[i]) % DaysPerWeek = day % DaysPerWeek})
               rate == IF h = <<>> THEN 0
                       ELSE ComputeStats(h).weekday_stats[day % DaysPerWeek]
                                .occurrence_rate
               minc == args.min_occurrence_count
               minr == args.min_occurrence_rate
           IN  /\ count < minc
                    => ret = [should_predict |-> FALSE, confidence |-> 0,
                              reason |-> "insufficient_sample"]
               /\ (count >= minc /\ rate < minr)
                    => ret = [should_predict |-> FALSE, confidence |-> rate,
                              reason |-> "rate_too_low"]
               /\ (count >= minc /\ rate >= minr)
                    => ret = [should_predict |-> TRUE, confidence |-> rate,
                              reason |-> "authorized"]
               /\ ret.should_predict <=> (count >= minc /\ rate >= minr)
               /\ ret.confidence \in {0, rate}

\* a weekday with too few events and a rate above the threshold is rejected
\* with confidence 0.0
C6_Witness ==
    /\ op = "should_predict_event"
    /\ args.min_occurrence_count = DefaultMinCount
    /\ args.min_occurrence_rate = DefaultMinRate
    /\ Len(args.history) = 1
    /\ Weekday(args.history[1]) = Weekday(args.target_date)
    /\ ret = [should_predict |-> FALSE, confidence |-> 0,
              reason |-> "insufficient_sample"]

\* C7: the gap list of a date-sorted history has one gap, the whole-day
\* difference, for each pair of consecutive events on distinct calendar days
\* and none for a pair on the same day; every gap is at least 1 and fewer
\* than two records give no gap.
C7_GapPerDistinctDayPair ==
    op = "_compute_gaps_between_events"
        => LET s == SortValues(args.history)
               pairs == {i \in 1..(Len(s) - 1) :
                            DateOf(s[i]) # DateOf(s[i + 1])}
           IN  /\ Len(ret) = Cardinality(pairs)
               /\ \A j \in 1..Len(ret) : ret[j] >= 1
               /\ \A i \in pairs :
                    ret[Cardinality({p \in pairs : p <= i})]
                        = DateOf(s[i + 1]) - DateOf(s[i])
               /\ Len(args.history) < 2 => ret = <<>>

\* C8: the periodicity score is 0.0 for fewer than 3 gaps, 1.0 for at least
\* 3 gaps that are all equal, and in [0,1] always.
C8_PeriodicityScore ==
    op = "_compute_periodicity_score"
        => LET g == args.history
           IN  /\ Len(g) < 3 => ret = 0
               /\ (Len(g) >= 3 /\ \A i \in 1..Len(g) : g[i] = g[1])
                    => ret = Scale
               /\ ret >= 0
               /\ ret <= Scale

\* the gaps [7,7,7,7] have been scored 1.0
C8_Witness ==
    /\ op = "_compute_periodicity_score"
    /\ args.history = <<7, 7, 7, 7>>
    /\ ret = Scale

\* C9: an empty history gives weekday_stats = {}, stddev 0.0, score 0.0,
\* total_events 0 and a history_span_days that is a non-negative integer; a
\* single-record history gives history_span_days = 0.
C9_DegenerateDefaults ==
    op = "compute_entity_stats"
        => /\ args.history = <<>>
                => /\ DOMAIN ret.weekday_stats = {}
                   /\ ret.stddev_gap_between_events = 0
                   /\ ret.periodicity_score = 0
                   /\ ret.total_events = 0
                   /\ ~ret.history_span_days.nan
                   /\ ret.history_span_days.days >= 0
           /\ Len(args.history) = 1
                => ret.history_span_days = IntDays(0)

\* C10: with no clear_cache, the stats under a key stay those computed at
\* the first miss for the key, and every call with that entity_id and a
\* history of that length returns them, whatever the dates of its history.
C10_EntryImmutable ==
    /\ \A k \in DOMAIN cache : cache[k] = ComputeStats(origin[k].history)
    /\ IsLookup =>
          LET first == ComputeStats(origin[ArgsKey].history)
          IN  /\ ArgsKey \in DOMAIN cache
              /\ op = "compute_entity_stats" => ret = first
              /\ op = "extract_features"
                    => ret = Features(first, args.target_date)
              /\ op = "should_predict_event"
                    => ret = Decide(Features(first, args.target_date),
                                    args.min_occurrence_count,
                                    args.min_occurrence_rate)

\* a call was served the stats of an earlier history with other dates
C10_Witness ==
    /\ op = "compute_entity_stats"
    /\ served = "hit"
    /\ origin[ArgsKey].history # args.history
    /\ ret = ComputeStats(origin[ArgsKey].history)
    /\ ret # ComputeStats(args.history)

====
